---------------------------- MODULE Spec2Model ----------------------------
(***************************************************************************)
(* A model of clickatell/__init__.py: the line-oriented response parser    *)
(* (ClickatellResponse) and the API client (Clickatell).                   *)
(*                                                                         *)
(* A Python str is a sequence of one-character strings.  A Python dict is  *)
(* a function whose domain is its key set.  A value held by a              *)
(* ClickatellResponse is tagged with its Python type: "str" or "list".     *)
(***************************************************************************)
EXTENDS Naturals, Sequences, FiniteSets, TLC

(***************************************************************************)
(* Bounds of the model.                                                    *)
(***************************************************************************)
\* the longest response, in lines, the parser is run on
MaxLines == 3

(***************************************************************************)
(* Characters.                                                             *)
(***************************************************************************)
\* [A-Za-z] of KEY_VALUE_RE
Alpha ==
    {"A", "B", "C", "D", "E", "F", "G", "H", "I", "J", "K", "L", "M",
     "N", "O", "P", "Q", "R", "S", "T", "U", "V", "W", "X", "Y", "Z",
     "a", "b", "c", "d", "e", "f", "g", "h", "i", "j", "k", "l", "m",
     "n", "o", "p", "q", "r", "s", "t", "u", "v", "w", "x", "y", "z"}

\* what str.strip() removes and what \s matches (the newline aside, which
\* data.split("\n") has consumed before either is applied)
Whitespace == {" ", "\t", "\r", "\f"}

None == [type |-> "NoneType"]

Str(s) == [type |-> "str", v |-> s]

List(l) == [type |-> "list", v |-> l]

(***************************************************************************)
(* str methods used by the parser.                                         *)
(***************************************************************************)
\* index of the first occurrence of character c in s at or after i, 0 when
\* there is none
RECURSIVE find_from(_, _, _)
find_from(s, c, i) ==
    IF i > Len(s) THEN 0 ELSE IF s[i] = c THEN i ELSE find_from(s, c, i + 1)

find(s, c) == find_from(s, c, 1)

\* s.split(sep) for a one-character separator
RECURSIVE split(_, _)
split(s, sep) ==
    LET i == find(s, sep)
    IN  IF i = 0
        THEN <<s>>
        ELSE <<SubSeq(s, 1, i - 1)>> \o split(SubSeq(s, i + 1, Len(s)), sep)

\* the length of the longest prefix of s made of characters of set cs,
\* known to be at least n
RECURSIVE span_from(_, _, _)
span_from(s, cs, n) ==
    IF n < Len(s) /\ s[n + 1] \in cs THEN span_from(s, cs, n + 1) ELSE n

span(s, cs) == span_from(s, cs, 0)

\* the same for the longest suffix
RECURSIVE rspan_from(_, _, _)
rspan_from(s, cs, n) ==
    IF n < Len(s) /\ s[Len(s) - n] \in cs THEN rspan_from(s, cs, n + 1) ELSE n

rspan(s, cs) == rspan_from(s, cs, 0)

lstrip(s) == SubSeq(s, span(s, Whitespace) + 1, Len(s))

\* s.strip()
strip(s) ==
    LET t == lstrip(s)
    IN  SubSeq(t, 1, Len(t) - rspan(t, Whitespace))

\* KEY_VALUE_RE: start of line, one or more of [A-Za-z] (group 1), a colon,
\* any whitespace, the rest of the line (group 2), end of line.
\* The greedy letter run cannot give a letter back to match the colon, so
\* the line matches iff its maximal letter prefix is non-empty and is
\* followed by a colon; the whitespace pattern then takes all the whitespace
\* that follows and group 2 the rest of the line (a line holds no newline).
KEY_VALUE_RE(line) ==
    LET n == span(line, Alpha)
    IN  IF n >= 1 /\ n < Len(line) /\ line[n + 1] = ":"
        THEN [matched |-> TRUE,
              key     |-> SubSeq(line, 1, n),
              value   |-> lstrip(SubSeq(line, n + 2, Len(line)))]
        ELSE [matched |-> FALSE, key |-> <<>>, value |-> <<>>]

(***************************************************************************)
(* The outcome of running code: it returned a value, or raised.            *)
(***************************************************************************)
Returned(value) ==
    [exc |-> "", code |-> None, message |-> None, value |-> value, at |-> 0]

\* an exception of Python itself, raised while line number at was parsed
Raised(exc, at) ==
    [exc |-> exc, code |-> None, message |-> None, value |-> None, at |-> at]

\* ClickatellError.__init__(code, message)
ClickatellError(code, message, at) ==
    [exc |-> "ClickatellError", code |-> code, message |-> message,
     value |-> None, at |-> at]

ERR == <<"E", "R", "R">>

\* the error handling of _parse_response
raise_error(value, at) ==
    IF find(value, ",") # 0
    THEN LET parts == split(value, ",")
         IN  IF Len(parts) = 2
             THEN ClickatellError(Str(strip(parts[1])), Str(strip(parts[2])), at)
             \* code, message = <three or more parts>
             ELSE Raised("ValueError", at)
    ELSE ClickatellError(None, Str(strip(value)), at)

\* store with a bug: a repeated key keeps its last value only
store_overwrite(self, key, value) ==
    [k \in DOMAIN self \cup {key} |-> IF k = key THEN Str(value) ELSE self[k]]

\* "Store the response": the dict self after key, value are stored
store(self, key, value) ==
    IF key \in DOMAIN self
    THEN LET _value == self[key]
         IN  IF _value.type = "list"
             THEN [self EXCEPT ![key] = List(Append(_value.v, value))]
             ELSE [self EXCEPT ![key] = List(<<_value.v, value>>)]
    ELSE [k \in DOMAIN self \cup {key} |->
             IF k = key THEN Str(value) ELSE self[k]]

\* what the loop body does next: go on to the next line with dict self, or
\* leave the loop with an exception
Continue(self) == [raised |-> FALSE, self |-> self, outcome |-> None]

Leave(outcome) == [raised |-> TRUE, self |-> None, outcome |-> outcome]

\* parse_line with a bug: an ERR line is stored like any other line
parse_line_err_stored(rawline, i, self) ==
    LET line == strip(rawline)
    IN  IF line = <<>>
        THEN Continue(self)
        ELSE LET match == KEY_VALUE_RE(line)
             IN  IF ~match.matched
                 THEN Leave(Raised("AttributeError", i))
                 ELSE Continue(store(self, match.key, match.value))

\* parse_line with a bug: a line is tested for emptiness before it is
\* stripped, so a whitespace-only line reaches the pattern
parse_line_blank_matched(rawline, i, self) ==
    LET line == strip(rawline)
    IN  IF rawline = <<>>
        THEN Continue(self)
        ELSE LET match == KEY_VALUE_RE(line)
             IN  IF ~match.matched
                 THEN Leave(Raised("AttributeError", i))
                 ELSE IF match.key = ERR
                 THEN Leave(raise_error(match.value, i))
                 ELSE Continue(store(self, match.key, match.value))

\* parse_line with a bug: a line the pattern does not match is skipped
parse_line_malformed_dropped(rawline, i, self) ==
    LET line == strip(rawline)
    IN  IF line = <<>>
        THEN Continue(self)
        ELSE LET match == KEY_VALUE_RE(line)
             IN  IF ~match.matched
                 THEN Continue(self)
                 ELSE IF match.key = ERR
                 THEN Leave(raise_error(match.value, i))
                 ELSE Continue(store(self, match.key, match.value))

\* the body of the loop of _parse_response for line number i, self being the
\* dict so far
parse_line(rawline, i, self) ==
    LET line == strip(rawline)
    IN  IF line = <<>>
        THEN Continue(self)
        ELSE LET match == KEY_VALUE_RE(line)
             IN  IF ~match.matched
                 \* match is None, and match.group(1) raises
                 THEN Leave(Raised("AttributeError", i))
                 ELSE IF match.key = ERR
                 THEN Leave(raise_error(match.value, i))
                 ELSE Continue(store(self, match.key, match.value))

\* the loop of _parse_response from line i on
RECURSIVE parse_lines(_, _, _)
parse_lines(lines, i, self) ==
    IF i > Len(lines)
    THEN Returned(self)
    ELSE LET step == parse_line(lines[i], i, self)
         IN  IF step.raised
             THEN step.outcome
             ELSE parse_lines(lines, i + 1, step.self)

EmptyDict == [k \in {} |-> None]

\* ClickatellResponse(data): the new dict, or the exception raised
ClickatellResponse(data) == parse_lines(split(data, "\n"), 1, EmptyDict)

(***************************************************************************)
(* Response texts the parser is run on: up to MaxLines of these lines,     *)
(* joined by newlines.                                                     *)
(***************************************************************************)
BlankLine == <<>>
SpaceLine == <<" ", "\t">>
OkLine == <<"O", "K", ":", " ", "a", "b">>
IdLine1 == <<"I", "D", ":", " ", "m", "1">>
IdLine2 == <<" ", "I", "D", ":", "m", "2", " ">>
IdLine3 == <<"I", "D", ":">>
ErrCodeLine == <<"E", "R", "R", ":", " ", "1", "2", ",", " ", "N", "o", " ", "g", "o">>
ErrPlainLine == <<"E", "R", "R", ":", " ", "q", "u", "o", "t", "a">>
ErrCommasLine == <<"E", "R", "R", ":", " ", "1", ",", " ", "a", ",", " ", "b">>
DigitLine == <<"1", "2", "3">>
NoKeyLine == <<":", " ", "x">>
LowerErrLine == <<"e", "r", "r", ":", " ", "x">>

SampleLines ==
    {BlankLine, SpaceLine, OkLine, IdLine1, IdLine2, IdLine3, ErrCodeLine,
     ErrPlainLine, ErrCommasLine, DigitLine, NoKeyLine, LowerErrLine}

RECURSIVE join(_)
join(lines) ==
    IF Len(lines) = 0 THEN <<>>
    ELSE IF Len(lines) = 1 THEN lines[1]
    ELSE lines[1] \o <<"\n">> \o join(Tail(lines))

LineSeqs == UNION {[1..n -> SampleLines] : n \in 0..MaxLines}

SampleTexts == {join(ls) : ls \in LineSeqs}

(***************************************************************************)
(* urllib.urlencode, as _handler uses it.                                  *)
(***************************************************************************)
Digits == {"0", "1", "2", "3", "4", "5", "6", "7", "8", "9"}

\* urllib.always_safe
always_safe == Alpha \cup Digits \cup {"_", ".", "-"}

\* '%02X' % ord(c), for the other characters the model's texts hold
Hex(c) ==
    CASE c = ":"  -> <<"3", "A">>
      [] c = ","  -> <<"2", "C">>
      [] c = "/"  -> <<"2", "F">>
      [] c = "'"  -> <<"2", "7">>
      [] c = "["  -> <<"5", "B">>
      [] c = "]"  -> <<"5", "D">>
      [] c = "\\" -> <<"5", "C">>
      [] c = "\t" -> <<"0", "9">>
      [] c = "\r" -> <<"0", "D">>
      [] c = "\f" -> <<"0", "C">>

\* urllib.quote_plus(s), safe = ''
RECURSIVE quote_plus(_)
quote_plus(s) ==
    IF s = <<>>
    THEN <<>>
    ELSE LET c == Head(s)
         IN  (IF c \in always_safe THEN <<c>>
              ELSE IF c = " " THEN <<"+">>
              ELSE <<"%">> \o Hex(c))
             \o quote_plus(Tail(s))

\* repr(s) of a str without quote characters
RECURSIVE repr_chars(_)
repr_chars(s) ==
    IF s = <<>>
    THEN <<>>
    ELSE LET c == Head(s)
         IN  (CASE c = "\t" -> <<"\\", "t">>
                [] c = "\r" -> <<"\\", "r">>
                [] c = "\f" -> <<"\\", "x", "0", "c">>
                [] c = "\\" -> <<"\\", "\\">>
                [] OTHER    -> <<c>>)
             \o repr_chars(Tail(s))

RECURSIVE repr_items(_)
repr_items(l) ==
    IF Len(l) = 0 THEN <<>>
    ELSE <<"'">> \o repr_chars(l[1]) \o <<"'">>
         \o (IF Len(l) = 1 THEN <<>> ELSE <<",", " ">> \o repr_items(Tail(l)))

\* str(v) of a str or of a list of str
str(v) ==
    IF v.type = "str" THEN v.v ELSE <<"[">> \o repr_items(v.v) \o <<"]">>

\* urllib.urlencode(query): the key=value pairs of the query string, which a
\* dict yields in no particular order.  The keys are Python identifiers,
\* which quote_plus leaves as they are.
urlencode(query) == [k \in DOMAIN query |-> quote_plus(str(query[k]))]

(***************************************************************************)
(* The client.                                                             *)
(***************************************************************************)
\* Clickatell.METHODS
METHODS ==
    [auth          |-> "http/auth",
     delmsg        |-> "http/delmsg",
     getbalance    |-> "http/getbalance",
     getmsgcharge  |-> "http/getmsgcharge",
     ping          |-> "http/ping",
     sendmsg       |-> "http/sendmsg",
     token_pay     |-> "http/token_pay",
     querymsg      |-> "http/querymsg",
     startbatch    |-> "http_batch/startbatch",
     senditem      |-> "http_batch/senditem",
     quicksend     |-> "http_batch/quicksend",
     endbatch      |-> "http_batch/endbatch",
     routeCoverage |-> "utils/routeCoverage.php",
     ind_push      |-> "mms/ind_push.php",
     si_push       |-> "mms/si_push"]

\* the value of an attribute the object does not have
Unset == [type |-> "unset"]

OK == <<"O", "K">>

\* _handler with a bug: a session_id the caller passed is kept
_handler_keeps_caller_session(method, args, session, body) ==
    LET withsession ==
            IF session # Unset /\ "session_id" \notin DOMAIN args
            THEN [k \in DOMAIN args \cup {"session_id"} |->
                     IF k = "session_id" THEN session ELSE args[k]]
            ELSE args
        params == urlencode(withsession)
        result == ClickatellResponse(body)
    IN  [sent        |-> <<[verb |-> "GET", path |-> method, query |-> params]>>,
         outcome     |-> result,
         _connection |-> IF result.exc = "" THEN "closed" ELSE "open",
         _session_id |-> session]

\* _handler with a bug: an OK value in the response replaces the stored
\* session id
_handler_refreshes_session(method, args, session, body) ==
    LET withsession ==
            IF session # Unset
            THEN [k \in DOMAIN args \cup {"session_id"} |->
                     IF k = "session_id" THEN session ELSE args[k]]
            ELSE args
        params == urlencode(withsession)
        result == ClickatellResponse(body)
    IN  [sent        |-> <<[verb |-> "GET", path |-> method, query |-> params]>>,
         outcome     |-> result,
         _connection |-> IF result.exc = "" THEN "closed" ELSE "open",
         _session_id |-> IF result.exc = "" /\ OK \in DOMAIN result.value
                         THEN result.value[OK] ELSE session]

\* _handler(**args) of _create_handler(method), run on an object whose
\* _session_id attribute is session, the gateway answering with body: the
\* attributes after it, the request it issued and how it ended
_handler(method, args, session, body) ==
    LET withsession ==
            IF session # Unset
            THEN [k \in DOMAIN args \cup {"session_id"} |->
                     IF k = "session_id" THEN session ELSE args[k]]
            ELSE args
        params == urlencode(withsession)
        result == ClickatellResponse(body)
    IN  [sent        |-> <<[verb |-> "GET", path |-> method, query |-> params]>>,
         outcome     |-> result,
         \* connect() before the request; close() is reached only when
         \* ClickatellResponse(...) returns
         _connection |-> IF result.exc = "" THEN "closed" ELSE "open",
         _session_id |-> session]

\* __init__ with a bug: auth.get('OK', '') in place of auth['OK']
__init___default_ok(user, password, api_id, session, body) ==
    LET auth == _handler(METHODS["auth"],
                         [user |-> user, password |-> password, api_id |-> api_id],
                         session, body)
    IN  IF auth.outcome.exc # ""
        THEN auth
        ELSE IF OK \in DOMAIN auth.outcome.value
        THEN [auth EXCEPT !.outcome = Returned(None),
                          !._session_id = auth.outcome.value[OK]]
        ELSE [auth EXCEPT !.outcome = Returned(None),
                          !._session_id = Str(<<>>)]

\* Clickatell.__init__(user, password, api_id) on an object whose
\* _session_id attribute is session (Unset on a new object)
__init__(user, password, api_id, session, body) ==
    LET auth == _handler(METHODS["auth"],
                         [user |-> user, password |-> password, api_id |-> api_id],
                         session, body)
    IN  IF auth.outcome.exc # ""
        THEN auth
        ELSE IF OK \in DOMAIN auth.outcome.value
        THEN [auth EXCEPT !.outcome = Returned(None),
                          !._session_id = auth.outcome.value[OK]]
        \* auth['OK']
        ELSE [auth EXCEPT !.outcome = Raised("KeyError", 0)]

\* object.__getattribute__(self, name) on an object whose _session_id
\* attribute is session: the attribute's value, Unset when the object has no
\* such attribute.  The names are a sample of the names a caller can ask for.
object__getattribute__(name, session) ==
    CASE name = "_session_id"     -> session
      [] name = "_connection"     -> [type |-> "instance"]
      [] name = "SERVER"          -> [type |-> "str"]
      [] name = "_create_handler" -> [type |-> "instancemethod", func |-> name]
      [] name = "__init__"        -> [type |-> "instancemethod", func |-> name]
      [] OTHER                    -> Unset

\* Clickatell.__getattribute__(self, name)
__getattribute__(name, session) ==
    IF name \in DOMAIN METHODS
    THEN [type |-> "function", func |-> "_handler", method |-> METHODS[name]]
    ELSE object__getattribute__(name, session)

\* attr(**args) raises before any code of the attribute runs: there is no
\* such attribute, it is not callable, or it does not take these arguments
call_raises(attr, args) ==
    CASE attr = Unset -> "AttributeError"
      \* an instance of an old-style class without __call__
      [] attr.type = "instance" -> "AttributeError"
      [] attr.type \in {"str", "list"} -> "TypeError"
      [] attr.type = "instancemethod" /\ attr.func = "_create_handler"
         /\ DOMAIN args # {"method"} -> "TypeError"
      [] attr.type = "instancemethod" /\ attr.func = "__init__"
         /\ DOMAIN args # {"user", "password", "api_id"} -> "TypeError"
      [] OTHER -> ""

(***************************************************************************)
(* What callers pass and what the gateway answers.                         *)
(***************************************************************************)
Names ==
    DOMAIN METHODS
    \cup {"logout", "_session_id", "_connection", "SERVER", "_create_handler",
          "__init__"}

Credentials ==
    [user |-> Str(<<"u">>), password |-> Str(<<"p", " ", "w">>),
     api_id |-> Str(<<"7">>)]

SampleArgs ==
    {EmptyDict,
     [to |-> Str(<<"1">>), text |-> Str(<<"h", " ", "i">>)],
     [session_id |-> Str(<<"z", "z">>)],
     [method |-> Str(<<"x", "/", "y">>)],
     Credentials}

OkLine2 == <<"O", "K", ":", " ", "x", " ", "y">>

GatewayBodies ==
    {join(<<OkLine>>),
     join(<<OkLine2, BlankLine>>),
     join(<<OkLine, OkLine2>>),
     join(<<OkLine, ErrPlainLine>>),
     join(<<ErrCodeLine>>),
     join(<<ErrCommasLine>>),
     join(<<IdLine1, IdLine2, BlankLine>>),
     join(<<BlankLine>>),
     join(<<DigitLine>>)}

\* the most calls a caller makes on one client
MaxCalls == 2

(***************************************************************************)
(* State.                                                                  *)
(***************************************************************************)
VARIABLES
    data,         \* the response text the last evaluation read
    outcome,      \* how the last evaluation ended; None before the first
    response,     \* what the last call gave its caller; None if nothing
    phase,        \* "new": Clickatell(...) not evaluated yet; "ready": it
                  \* returned the client; "failed": it raised, no client
    _session_id,  \* self._session_id, Unset while the attribute is not set
    _connection,  \* self._connection: "none" before it is created, else
                  \* "closed" or "open"
    sent,         \* the requests the last evaluation sent to the gateway
    ncalls,       \* how many calls the caller made on the client
    call,         \* the last of these calls, None before it
    authdata      \* the response text the stored session id was taken from

clientvars ==
    <<phase, _session_id, _connection, sent, ncalls, call, authdata>>

vars == <<data, outcome, response, clientvars>>

NoClient ==
    /\ phase = "new"
    /\ _session_id = Unset
    /\ _connection = "none"
    /\ sent = <<>>
    /\ ncalls = 0
    /\ call = None
    /\ authdata = None

(***************************************************************************)
(* The parser on its own: a caller evaluates ClickatellResponse(data).     *)
(***************************************************************************)
ParseInit ==
    /\ data \in SampleTexts
    /\ outcome = None
    /\ response = None
    /\ NoClient

Parse ==
    /\ outcome = None
    /\ outcome' = ClickatellResponse(data)
    /\ response' = IF outcome'.exc = "" THEN outcome'.value ELSE None
    /\ UNCHANGED <<data, clientvars>>

ParseNext == Parse

ParseSpec == ParseInit /\ [][ParseNext]_vars

(***************************************************************************)
(* The client: Clickatell(user, password, api_id), then calls on it.       *)
(***************************************************************************)
Init ==
    /\ data = <<>>
    /\ outcome = None
    /\ response = None
    /\ NoClient

\* Clickatell(user=..., password=..., api_id=...)
Construct ==
    /\ phase = "new"
    /\ \E body \in GatewayBodies :
        \E self \in {__init__(Credentials.user, Credentials.password,
                             Credentials.api_id, Unset, body)} :
            /\ phase' = IF self.outcome.exc = "" THEN "ready" ELSE "failed"
            /\ _session_id' = self._session_id
            /\ _connection' = self._connection
            /\ sent' = self.sent
            /\ data' = body
            /\ outcome' = self.outcome
            /\ response' = None
            /\ authdata' = IF self.outcome.exc = "" THEN body ELSE None
    /\ UNCHANGED <<ncalls, call>>

\* client.<name>(**args), name a key of METHODS
CallHandler ==
    /\ phase = "ready"
    /\ ncalls < MaxCalls
    /\ \E name \in Names, args \in SampleArgs, body \in GatewayBodies :
        \E attr \in {__getattribute__(name, _session_id)} :
            /\ attr.type = "function"
            /\ \E self \in {_handler(attr.method, args, _session_id, body)} :
                   /\ _session_id' = self._session_id
                   /\ _connection' = self._connection
                   /\ sent' = self.sent
                   /\ data' = body
                   /\ outcome' = self.outcome
                   /\ response' = IF self.outcome.exc = ""
                                  THEN self.outcome.value ELSE None
            /\ call' = [name |-> name, args |-> args]
    /\ ncalls' = ncalls + 1
    /\ UNCHANGED <<phase, authdata>>

\* client.<name>(**args), where the attribute lookup or the call of what it
\* found raises
CallRaises ==
    /\ phase = "ready"
    /\ ncalls < MaxCalls
    /\ \E name \in Names, args \in SampleArgs :
        \E attr \in {__getattribute__(name, _session_id)} :
            /\ call_raises(attr, args) # ""
            /\ outcome' = Raised(call_raises(attr, args), 0)
            /\ call' = [name |-> name, args |-> args]
    /\ response' = None
    /\ ncalls' = ncalls + 1
    /\ data' = <<>>
    /\ sent' = <<>>
    /\ UNCHANGED <<phase, _session_id, _connection, authdata>>

\* client._create_handler(method=...): the lookup falls through to the
\* object's own method, which returns a handler for any path
CallCreateHandler ==
    /\ phase = "ready"
    /\ ncalls < MaxCalls
    /\ \E name \in Names, args \in SampleArgs :
        \E attr \in {__getattribute__(name, _session_id)} :
            /\ attr.type = "instancemethod"
            /\ attr.func = "_create_handler"
            /\ call_raises(attr, args) = ""
            /\ outcome' = Returned([type |-> "function", func |-> "_handler",
                                    method |-> args.method])
            /\ response' = outcome'.value
            /\ call' = [name |-> name, args |-> args]
    /\ ncalls' = ncalls + 1
    /\ data' = <<>>
    /\ sent' = <<>>
    /\ UNCHANGED <<phase, _session_id, _connection, authdata>>

\* client.__init__(user=..., password=..., api_id=...): the lookup falls
\* through to the object's own method, which runs on the live client
CallInit ==
    /\ phase = "ready"
    /\ ncalls < MaxCalls
    /\ \E name \in Names, args \in SampleArgs, body \in GatewayBodies :
        \E attr \in {__getattribute__(name, _session_id)} :
            /\ attr.type = "instancemethod"
            /\ attr.func = "__init__"
            /\ call_raises(attr, args) = ""
            /\ \E self \in {__init__(args.user, args.password, args.api_id,
                                     _session_id, body)} :
                   /\ _session_id' = self._session_id
                   /\ _connection' = self._connection
                   /\ sent' = self.sent
                   /\ data' = body
                   /\ outcome' = self.outcome
                   /\ response' = None
                   /\ authdata' = IF self.outcome.exc = "" THEN body
                                  ELSE authdata
            /\ call' = [name |-> name, args |-> args]
    /\ ncalls' = ncalls + 1
    /\ UNCHANGED phase

Next ==
    \/ Construct
    \/ CallHandler
    \/ CallRaises
    \/ CallCreateHandler
    \/ CallInit

Spec == Init /\ [][Next]_vars

(***************************************************************************)
(* Vocabulary of the properties: a response text seen line by line.        *)
(***************************************************************************)
LinesOf(d) == split(d, "\n")

LineNumbers(d) == 1..Len(LinesOf(d))

IsBlank(d, i) == strip(LinesOf(d)[i]) = <<>>

MatchOf(d, i) == KEY_VALUE_RE(strip(LinesOf(d)[i]))

\* line i is a "Key: Value" line
IsKeyLine(d, i) == ~IsBlank(d, i) /\ MatchOf(d, i).matched

IsErrLine(d, i) == IsKeyLine(d, i) /\ MatchOf(d, i).key = ERR

\* line i is neither blank nor a "Key: Value" line
IsMalformed(d, i) == ~IsBlank(d, i) /\ ~MatchOf(d, i).matched

ErrLines(d) == {i \in LineNumbers(d) : IsErrLine(d, i)}

MalformedLines(d) == {i \in LineNumbers(d) : IsMalformed(d, i)}

Least(S) == CHOOSE i \in S : \A j \in S : i <= j

KeysOf(d) == {MatchOf(d, i).key : i \in {j \in LineNumbers(d) : IsKeyLine(d, j)}}

\* the values of key k in d, in the order of their lines
ValuesOf(d, k) ==
    LET at == SelectSeq([i \in LineNumbers(d) |-> i],
                        LAMBDA i : IsKeyLine(d, i) /\ MatchOf(d, i).key = k)
    IN  [j \in 1..Len(at) |-> MatchOf(d, at[j]).value]

\* lines with line b put after its first i lines
InsertAt(lines, i, b) ==
    SubSeq(lines, 1, i) \o <<b>> \o SubSeq(lines, i + 1, Len(lines))

\* two outcomes that differ at most in the line number they were raised at
SameResult(o1, o2) == [o1 EXCEPT !.at = 0] = [o2 EXCEPT !.at = 0]

Parsed == outcome # None

(***************************************************************************)
(* Properties of the parser, checked under ParseSpec.                      *)
(***************************************************************************)
\* C1: for a response text without an ERR line, the parsed mapping has
\* exactly the keys of its lines; a key on one line maps to that line's value
\* as a single string, a key on n >= 2 lines maps to the list of its n values
\* in line order.  (A text with neither an ERR line nor a malformed line is
\* always parsed into a mapping.)
C1_RepeatedKeys ==
    (Parsed /\ ErrLines(data) = {}) =>
        /\ MalformedLines(data) = {} => outcome.exc = ""
        /\ outcome.exc = "" =>
            /\ response = outcome.value
            /\ DOMAIN response = KeysOf(data)
            /\ \A k \in KeysOf(data) :
                LET values == ValuesOf(data, k)
                IN  IF Len(values) = 1
                    THEN response[k] = Str(values[1])
                    ELSE /\ response[k] = List(values)
                         /\ Len(response[k].v) = Len(values)
                         /\ Len(values) >= 2

C1_Witness ==
    /\ Parsed
    /\ outcome.exc = ""
    /\ \E k1, k2 \in KeysOf(data) :
        Len(ValuesOf(data, k1)) = 1 /\ Len(ValuesOf(data, k2)) >= 2

\* C2: when parsing reaches an ERR line, it raises ClickatellError with the
\* value split on its first comma only: the stripped left part is the code
\* and the stripped remainder, commas included, the message; without a comma
\* the code is None and the message the stripped value.
C2_ErrSplitOnFirstComma ==
    (/\ Parsed
     /\ ErrLines(data) # {}
     /\ \A i \in MalformedLines(data) : i > Least(ErrLines(data))) =>
        LET value == MatchOf(data, Least(ErrLines(data))).value
            comma == find(value, ",")
        IN  /\ outcome.exc = "ClickatellError"
            /\ IF comma # 0
               THEN /\ outcome.code = Str(strip(SubSeq(value, 1, comma - 1)))
                    /\ outcome.message =
                           Str(strip(SubSeq(value, comma + 1, Len(value))))
               ELSE /\ outcome.code = None
                    /\ outcome.message = Str(strip(value))

\* C3: for a response text with an ERR line, parsing ends in an exception no
\* later than at the first ERR line (at it, when no malformed line comes
\* first); the lines after it play no part, the keys stored before it are
\* not in the outcome, and the caller gets no response object.
C3_ErrStopsParsing ==
    (Parsed /\ ErrLines(data) # {}) =>
        LET first == Least(ErrLines(data))
        IN  /\ outcome.exc # ""
            /\ outcome.value = None
            /\ response = None
            /\ outcome.at >= 1 /\ outcome.at <= first
            /\ (\A i \in MalformedLines(data) : i > first) => outcome.at = first
            /\ outcome = ClickatellResponse(join(SubSeq(LinesOf(data), 1, first)))

C3_Witness ==
    /\ Parsed
    /\ ErrLines(data) # {}
    /\ Least(ErrLines(data)) = 2
    /\ Len(LinesOf(data)) = 3
    /\ IsKeyLine(data, 1)
    /\ IsKeyLine(data, 3)
    /\ outcome.exc = "ClickatellError"
    /\ response = None

\* C4: blank and whitespace-only lines are skipped: no exception is raised at
\* one, the empty string is never a key, a text of such lines alone parses
\* into the empty mapping, and putting one more such line anywhere in a text
\* leaves the result of parsing it the same.
C4_BlankLinesSkipped ==
    Parsed =>
        /\ \A i \in LineNumbers(data) : IsBlank(data, i) => outcome.at # i
        /\ outcome.exc = "" => <<>> \notin DOMAIN response
        /\ (\A i \in LineNumbers(data) : IsBlank(data, i)) =>
               outcome = Returned(EmptyDict) /\ response = EmptyDict
        /\ \A i \in 0..Len(LinesOf(data)), b \in {BlankLine, SpaceLine} :
               SameResult(ClickatellResponse(join(InsertAt(LinesOf(data), i, b))),
                          outcome)

C4_Witness ==
    /\ Parsed
    /\ outcome.exc = ""
    /\ response # EmptyDict
    /\ \E i, j \in LineNumbers(data) :
        /\ LinesOf(data)[i] = BlankLine
        /\ LinesOf(data)[j] = SpaceLine

\* C10: when a malformed line (not blank, not "letters, colon, rest") comes
\* before any ERR line, parsing raises at the first malformed line and the
\* caller gets no response object.
C10_MalformedLineRaises ==
    (/\ Parsed
     /\ MalformedLines(data) # {}
     /\ \A i \in ErrLines(data) : i > Least(MalformedLines(data))) =>
        /\ outcome = Raised("AttributeError", Least(MalformedLines(data)))
        /\ response = None

C10_Witness ==
    /\ Parsed
    /\ MalformedLines(data) # {}
    /\ Least(MalformedLines(data)) = 2
    /\ IsKeyLine(data, 1)
    /\ outcome.exc = "AttributeError"

(***************************************************************************)
(* Properties of the client, checked under Spec.                           *)
(***************************************************************************)
\* the character quote_plus writes as % and the two hex digits h
Unhex(h) ==
    CHOOSE c \in {":", ",", "/", "'", "[", "]", "\\", "\t", "\r", "\f"} :
        Hex(c) = h

\* urllib.unquote_plus
RECURSIVE unquote_plus(_)
unquote_plus(s) ==
    IF s = <<>> THEN <<>>
    ELSE IF s[1] = "%"
    THEN <<Unhex(SubSeq(s, 2, 3))>> \o unquote_plus(SubSeq(s, 4, Len(s)))
    ELSE <<IF s[1] = "+" THEN " " ELSE s[1]>> \o unquote_plus(Tail(s))

\* the OK value of the authentication response the client was built from
AuthOK == ClickatellResponse(authdata).value[OK]

\* the last call was client.<name>(...) for a name of the endpoint table
OperationCalled == ncalls > 0 /\ call.name \in DOMAIN METHODS

\* C5: constructing a client sends exactly one request, the auth request,
\* without a session_id; every operation call on the client sends one
\* request whose session_id parameter decodes to the OK value of the
\* authentication response, whatever the caller passed.
C5_SessionIdInjected ==
    /\ (phase # "new" /\ ncalls = 0) =>
        /\ Len(sent) = 1
        /\ sent[1].path = METHODS.auth
        /\ "session_id" \notin DOMAIN sent[1].query
    /\ (phase = "ready" /\ OperationCalled) =>
        /\ Len(sent) = 1
        /\ "session_id" \in DOMAIN sent[1].query
        /\ unquote_plus(sent[1].query.session_id) = str(AuthOK)
        /\ \A k \in DOMAIN call.args \ {"session_id"} :
               unquote_plus(sent[1].query[k]) = str(call.args[k])

C5_Witness ==
    /\ phase = "ready"
    /\ OperationCalled
    /\ call.name = "sendmsg"
    /\ "session_id" \in DOMAIN call.args
    /\ call.args.session_id # _session_id
    /\ unquote_plus(sent[1].query.session_id) = str(_session_id)

\* C6: a call of a name that is not a key of the endpoint table raises and
\* sends no request; a call of a key of the table sends one request, to the
\* key's own path.
C6_UnknownNameRejected ==
    ncalls > 0 =>
        /\ call.name \notin DOMAIN METHODS => outcome.exc # "" /\ sent = <<>>
        /\ call.name \in DOMAIN METHODS =>
               Len(sent) = 1 /\ sent[1].path = METHODS[call.name]

\* C7: the client exists with a session id only if the authentication
\* response has no ERR line and has an OK key; otherwise the constructor
\* raises, no session id is stored, and no call can follow.
C7_AuthNeedsOK ==
    /\ phase = "ready" =>
        /\ _session_id # Unset
        /\ ErrLines(authdata) = {}
        /\ OK \in KeysOf(authdata)
        /\ _session_id = AuthOK
    /\ (phase # "new" /\ ncalls = 0
        /\ (ErrLines(data) # {} \/ OK \notin KeysOf(data))) => phase = "failed"
    /\ phase = "failed" =>
        /\ _session_id = Unset
        /\ outcome.exc # ""
        /\ ncalls = 0
        /\ ~ENABLED Next

C7_Witness ==
    /\ phase = "failed"
    /\ outcome.exc = "KeyError"
    /\ ErrLines(data) = {}
    /\ _session_id = Unset

\* C8: after every operation call, whether it returned or raised, the
\* connection is closed.
C8_ConnectionClosedAfterCall ==
    OperationCalled => _connection = "closed"

\* C9: no operation call on a client changes or clears its session id, and
\* the client stays usable after it.
C9_SessionIdStable ==
    [][(phase = "ready" /\ ncalls' = ncalls + 1
        /\ call'.name \in DOMAIN METHODS) =>
           /\ phase' = "ready"
           /\ _session_id # Unset
           /\ _session_id' = _session_id]_vars

C9_Witness ==
    /\ phase = "ready"
    /\ ncalls = MaxCalls
    /\ call.name = "auth"
    /\ outcome.exc = ""
    /\ OK \in DOMAIN response
    /\ response[OK] # _session_id
    /\ _connection = "closed"

=============================================================================
